---------------------------- MODULE Spec2Model ----------------------------
(***************************************************************************)
(* Model of the prioritisation and reporting engine of tfs-analyzer.py:    *)
(* main's choice of channel and AI usage, get_work_items, generate_output, *)
(* invoke_claude_analysis with its external calls, the enhanced (AI)       *)
(* renderers with their reconciliation, the traditional scoring pass and   *)
(* the traditional renderers.                                              *)
(*                                                                         *)
(* Text (titles, descriptions, states, types, AI report lines) is a        *)
(* sequence of one-character strings, so that lower(), upper() and the     *)
(* substring test `kw in text` are computed and not assumed.               *)
(*                                                                         *)
(* Spec is the run of main. ScoreSpec calls calculate_priority_score and    *)
(* analyze_content on one work item drawn from a product of field values;  *)
(* ReconcileSpec runs the reconciliation loop of the enhanced renderers on *)
(* one work item and one AI report.                                        *)
(*                                                                         *)
(* The model starts where main has parsed its arguments and built the      *)
(* TFSAnalyzer. As the file stands it does not get that far: line 21       *)
(* imports MimeText, which email.mime.text does not export, and line 1391  *)
(* registers -h a second time with argparse. The methods are modelled as   *)
(* they behave once called.                                                *)
(***************************************************************************)
EXTENDS Integers, Sequences, FiniteSets, TLC

VARIABLES
    pc,                  \* position of the run in main / generate_output / invoke_claude_analysis
    config,              \* TFSAnalyzer.config as loaded by __init__
    output_type,         \* main's output_method, generate_output's output_type
    use_claude,          \* main's use_claude
    work_items,          \* what get_work_items returned
    fetch_status,        \* "none", "ok", "request_error", "raised"
    claude_response,     \* stdout of the assessment call (lines), <<>> before it
    claude_error_reason, \* generate_output's claude_error_reason, "None" when unset
    ai_status,           \* "none", "running", "success", "failed"
    analyzed_items,      \* generate_output's analyzed_items after the sort
    phases,              \* the steps of the run so far, in the order they were entered
    output,              \* everything the run has emitted to console, files and mail
    exit_status,         \* "running", "zero" (main returned), "nonzero" (uncaught exception)
    engine_calls         \* the calls of the engine's functions made on their own, with their results

vars == <<pc, config, output_type, use_claude, work_items, fetch_status,
          claude_response, claude_error_reason, ai_status, analyzed_items,
          phases, output, exit_status, engine_calls>>

---------------------------------------------------------------------------
(* Bounds of the model. *)

\* longest list the backend returns in the model
MaxItems == 3

---------------------------------------------------------------------------
(* Text helpers: str.lower, str.upper, `in`, str(int). *)

UpperLetters == <<"A","B","C","D","E","F","G","H","I","J","K","L","M",
                  "N","O","P","Q","R","S","T","U","V","W","X","Y","Z">>
LowerLetters == <<"a","b","c","d","e","f","g","h","i","j","k","l","m",
                  "n","o","p","q","r","s","t","u","v","w","x","y","z">>

\* the letters str.lower changes, each with its lowercase form, and the
\* letters str.upper changes, each with its uppercase form
LowerOf == [c \in {UpperLetters[i] : i \in 1..26} |->
               LowerLetters[CHOOSE i \in 1..26 : UpperLetters[i] = c]]
UpperOf == [c \in {LowerLetters[i] : i \in 1..26} |->
               UpperLetters[CHOOSE i \in 1..26 : LowerLetters[i] = c]]

lower(s) == [i \in 1..Len(s) |-> IF s[i] \in DOMAIN LowerOf THEN LowerOf[s[i]] ELSE s[i]]

upper(s) == [i \in 1..Len(s) |-> IF s[i] \in DOMAIN UpperOf THEN UpperOf[s[i]] ELSE s[i]]

\* Python's `kw in text` on strings
Contains(text, kw) ==
    \E i \in 1..(Len(text) - Len(kw) + 1) : SubSeq(text, i, i + Len(kw) - 1) = kw

Digits == <<"0","1","2","3","4","5","6","7","8","9">>

RECURSIVE IdStr(_)
\* str(item.get('id', '')) for a non-negative integer id
IdStr(n) == IF n < 10 THEN <<Digits[n + 1]>>
            ELSE IdStr(n \div 10) \o <<Digits[(n % 10) + 1]>>

Max(a, b) == IF a >= b THEN a ELSE b
Min(a, b) == IF a <= b THEN a ELSE b

---------------------------------------------------------------------------
(* ScoreEngine: calculate_priority_score. *)

state_weights(s) ==
    CASE s = <<"i","n"," ","p","r","o","g","r","e","s","s">> -> 5
      [] s = <<"a","c","t","i","v","e">> -> 4
      [] s = <<"n","e","w">> -> 3
      [] s = <<"c","o","m","m","i","t","t","e","d">> -> 3
      [] s = <<"t","o"," ","d","o">> -> 2
      [] s = <<"d","o","n","e">> -> 1
      [] s = <<"c","l","o","s","e","d">> -> 1
      [] OTHER -> 0

type_weights(t) ==
    CASE t = <<"b","u","g">> -> 3
      [] t = <<"t","a","s","k">> -> 2
      [] t = <<"p","r","o","d","u","c","t"," ","b","a","c","k","l","o","g"," ","i","t","e","m">> -> 2
      [] t = <<"e","p","i","c">> -> 1
      [] OTHER -> 0

severity_weights(s) ==
    CASE s = <<"1"," ","-"," ","c","r","i","t","i","c","a","l">> -> 4
      [] s = <<"2"," ","-"," ","h","i","g","h">> -> 3
      [] s = <<"3"," ","-"," ","m","e","d","i","u","m">> -> 2
      [] s = <<"4"," ","-"," ","l","o","w">> -> 1
      [] OTHER -> 0

high_keywords ==
    { <<"s","h","o","w","s","t","o","p","p","e","r">>,
      <<"c","r","i","t","i","c","a","l">>,
      <<"u","r","g","e","n","t">>,
      <<"b","l","o","c","k","e","r">>,
      <<"p","r","o","d","u","c","t","i","o","n">>,
      <<"d","o","w","n">>,
      <<"c","r","a","s","h">> }

medium_keywords ==
    { <<"e","r","r","o","r">>,
      <<"e","x","c","e","p","t","i","o","n">>,
      <<"f","a","i","l">>,
      <<"b","r","o","k","e","n">>,
      <<"i","s","s","u","e">> }

\* f"{title} {description}" of the lowercased fields
text_content(item) == lower(item.title) \o <<" ">> \o lower(item.description)

\* `if priority:` is truthy for a non-zero integer and for a non-empty string;
\* int(priority) raises ValueError for a string that is no integer literal
PriorityRaises(item) == item.priority.k = "str"

PriorityContribution(item) ==
    IF item.priority.k = "int" /\ item.priority.v # 0
    THEN Max(0, 5 - item.priority.v) ELSE 0

\* SeverityContribution with the table looked up on the label as it is
SeverityContributionCaseSensitive(item) ==
    IF Len(item.severity) > 0 THEN severity_weights(item.severity) ELSE 0

SeverityContribution(item) ==
    IF Len(item.severity) > 0 THEN severity_weights(lower(item.severity)) ELSE 0

\* KeywordContribution with the two bonuses added up
KeywordContributionAdditive(item) ==
    (IF \E kw \in high_keywords : Contains(text_content(item), kw) THEN 3 ELSE 0)
    + (IF \E kw \in medium_keywords : Contains(text_content(item), kw) THEN 2 ELSE 0)

KeywordContribution(item) ==
    IF \E kw \in high_keywords : Contains(text_content(item), kw) THEN 3
    ELSE IF \E kw \in medium_keywords : Contains(text_content(item), kw) THEN 2
    ELSE 0

Score(item) ==
    state_weights(lower(item.state)) + type_weights(lower(item.type))
    + PriorityContribution(item) + SeverityContribution(item)
    + KeywordContribution(item)

\* PriorityLevel with HIGH only above 8
PriorityLevelAbove(score) ==
    IF score > 8 THEN "HIGH" ELSE IF score >= 5 THEN "MEDIUM" ELSE "LOW"

PriorityLevel(score) ==
    IF score >= 8 THEN "HIGH" ELSE IF score >= 5 THEN "MEDIUM" ELSE "LOW"

\* calculate_priority_score with a result that depends on the calls made before
calculate_priority_scoreCounting(item) ==
    [raised |-> FALSE, score |-> Len(engine_calls), level |-> "LOW"]

\* the call as a whole: either it raises, or it returns (score, priority_level)
calculate_priority_score(item) ==
    IF PriorityRaises(item)
    THEN [raised |-> TRUE, score |-> 0, level |-> "LOW"]
    ELSE LET score == Score(item)
         IN  [raised |-> FALSE, score |-> score, level |-> PriorityLevel(score)]

---------------------------------------------------------------------------
(* ContentAnalyzer: analyze_content and its three helpers. *)

InvestigateAndReproduce ==
    <<"I","n","v","e","s","t","i","g","a","t","e"," ","a","n","d"," ","r","e",
      "p","r","o","d","u","c","e"," ","t","h","e"," ","i","s","s","u","e">>
ContinueDebugging ==
    <<"C","o","n","t","i","n","u","e"," ","d","e","b","u","g","g","i","n","g",
      " ","a","n","d"," ","p","r","o","v","i","d","e"," ","s","t","a","t","u",
      "s"," ","u","p","d","a","t","e","s">>
FocusOnFix ==
    <<"F","o","c","u","s"," ","o","n"," ","c","o","m","p","l","e","t","i","n",
      "g"," ","t","h","e"," ","f","i","x">>
ScheduleWork ==
    <<"S","c","h","e","d","u","l","e"," ","w","o","r","k"," ","a","n","d"," ",
      "m","o","v","e"," ","t","o"," ","A","c","t","i","v","e">>
ContinueWork ==
    <<"C","o","n","t","i","n","u","e"," ","w","o","r","k"," ","a","n","d"," ",
      "p","r","o","v","i","d","e"," ","s","t","a","t","u","s"," ","u","p","d",
      "a","t","e","s">>
FocusOnTasks ==
    <<"F","o","c","u","s"," ","o","n"," ","c","o","m","p","l","e","t","i","n",
      "g"," ","c","u","r","r","e","n","t"," ","t","a","s","k","s">>
ContinueWorkOn ==
    <<"C","o","n","t","i","n","u","e"," ","w","o","r","k"," ","o","n"," ">>

\* _get_action_recommendation with the table left out
_get_action_recommendationFallback(work_type, state) ==
    ContinueWorkOn \o lower(work_type)

\* _get_action_recommendation with the keys compared without regard to letter case
_get_action_recommendationAnyCase(work_type, state) ==
    CASE lower(work_type) = <<"b","u","g">> /\ lower(state) = <<"n","e","w">> -> InvestigateAndReproduce
      [] lower(work_type) = <<"b","u","g">> /\ lower(state) = <<"a","c","t","i","v","e">> -> ContinueDebugging
      [] lower(work_type) = <<"b","u","g">> /\ lower(state) = <<"i","n"," ","p","r","o","g","r","e","s","s">> -> FocusOnFix
      [] lower(work_type) = <<"t","a","s","k">> /\ lower(state) = <<"t","o"," ","d","o">> -> ScheduleWork
      [] lower(work_type) = <<"t","a","s","k">> /\ lower(state) = <<"a","c","t","i","v","e">> -> ContinueWork
      [] lower(work_type) = <<"t","a","s","k">> /\ lower(state) = <<"i","n"," ","p","r","o","g","r","e","s","s">> -> FocusOnTasks
      [] OTHER -> ContinueWorkOn \o lower(work_type)

\* recommendations.get((work_type, state), f"Continue work on {work_type.lower()}"):
\* the keys are compared as they are, letter case included
_get_action_recommendation(work_type, state) ==
    CASE work_type = <<"B","u","g">> /\ state = <<"N","e","w">> -> InvestigateAndReproduce
      [] work_type = <<"B","u","g">> /\ state = <<"A","c","t","i","v","e">> -> ContinueDebugging
      [] work_type = <<"B","u","g">> /\ state = <<"I","n"," ","P","r","o","g","r","e","s","s">> -> FocusOnFix
      [] work_type = <<"T","a","s","k">> /\ state = <<"T","o"," ","D","o">> -> ScheduleWork
      [] work_type = <<"T","a","s","k">> /\ state = <<"A","c","t","i","v","e">> -> ContinueWork
      [] work_type = <<"T","a","s","k">> /\ state = <<"I","n"," ","P","r","o","g","r","e","s","s">> -> FocusOnTasks
      [] OTHER -> ContinueWorkOn \o lower(work_type)

HighStabilityImpact ==
    <<"H","i","g","h"," ","-"," ","P","o","t","e","n","t","i","a","l"," ","s",
      "y","s","t","e","m"," ","s","t","a","b","i","l","i","t","y"," ","i","m",
      "p","a","c","t">>
MediumUserExperienceImpact ==
    <<"M","e","d","i","u","m"," ","-"," ","U","s","e","r"," ","e","x","p","e",
      "r","i","e","n","c","e"," ","i","m","p","a","c","t">>
LowToMediumFunctionalImpact ==
    <<"L","o","w"," ","t","o"," ","M","e","d","i","u","m"," ","-"," ","F","u",
      "n","c","t","i","o","n","a","l"," ","i","m","p","a","c","t">>
HighCoreSystemImpact ==
    <<"H","i","g","h"," ","-"," ","C","o","r","e"," ","s","y","s","t","e","m",
      " ","i","m","p","a","c","t">>
MediumFeatureImpact ==
    <<"M","e","d","i","u","m"," ","-"," ","F","e","a","t","u","r","e","/","f",
      "u","n","c","t","i","o","n","a","l","i","t","y"," ","i","m","p","a","c",
      "t">>

stability_words ==
    { <<"c","r","a","s","h">>, <<"e","r","r","o","r">>,
      <<"e","x","c","e","p","t","i","o","n">>, <<"f","a","i","l">> }

experience_words ==
    { <<"u","i">>, <<"d","i","s","p","l","a","y">>, <<"v","i","s","u","a","l">> }

core_words ==
    { <<"p","e","r","f","o","r","m","a","n","c","e">>,
      <<"s","e","c","u","r","i","t","y">>, <<"d","a","t","a">> }

\* _assess_impact with the words of the user interface tested first
_assess_impactUiFirst(work_type, title, description) ==
    LET text == lower(title \o <<" ">> \o description)
    IN  IF lower(work_type) = <<"b","u","g">>
        THEN IF \E word \in experience_words : Contains(text, word)
             THEN MediumUserExperienceImpact
             ELSE IF \E word \in stability_words : Contains(text, word)
             THEN HighStabilityImpact
             ELSE LowToMediumFunctionalImpact
        ELSE IF \E word \in core_words : Contains(text, word)
             THEN HighCoreSystemImpact
             ELSE MediumFeatureImpact

_assess_impact(work_type, title, description) ==
    LET text == lower(title \o <<" ">> \o description)
    IN  IF lower(work_type) = <<"b","u","g">>
        THEN IF \E word \in stability_words : Contains(text, word)
             THEN HighStabilityImpact
             ELSE IF \E word \in experience_words : Contains(text, word)
             THEN MediumUserExperienceImpact
             ELSE LowToMediumFunctionalImpact
        ELSE IF \E word \in core_words : Contains(text, word)
             THEN HighCoreSystemImpact
             ELSE MediumFeatureImpact

NoDescriptionProvided ==
    <<"N","o"," ","d","e","s","c","r","i","p","t","i","o","n"," ","p","r","o",
      "v","i","d","e","d">>

RECURSIVE split(_)
\* description.split('\n')
split(s) ==
    IF \A i \in 1..Len(s) : s[i] # "\n" THEN <<s>>
    ELSE LET k == CHOOSE i \in 1..Len(s) :
                     s[i] = "\n" /\ \A j \in 1..(i - 1) : s[j] # "\n"
         IN  <<SubSeq(s, 1, k - 1)>> \o split(SubSeq(s, k + 1, Len(s)))

Whitespace == {" ", "\t", "\r", "\n"}

\* line.strip()
strip(s) ==
    LET keep == {i \in 1..Len(s) : s[i] \notin Whitespace}
    IN  IF keep = {} THEN <<>>
        ELSE SubSeq(s, CHOOSE i \in keep : \A j \in keep : i <= j,
                       CHOOSE i \in keep : \A j \in keep : i >= j)

startswith(s, prefix) ==
    Len(s) >= Len(prefix) /\ SubSeq(s, 1, Len(prefix)) = prefix

\* a bullet, or "1." to "9." at the start of the stripped line
IsKeyLine(line) ==
    \/ startswith(line, <<"-">>)
    \/ startswith(line, <<"*">>)
    \/ \E i \in 1..9 : startswith(line, IdStr(i) \o <<".">>)

RECURSIVE join(_)
\* '\n'.join(lines)
join(lines) ==
    IF Len(lines) = 0 THEN <<>>
    ELSE IF Len(lines) = 1 THEN lines[1]
    ELSE lines[1] \o <<"\n">> \o join(Tail(lines))

_extract_key_points(description) ==
    IF Len(description) = 0 THEN NoDescriptionProvided
    ELSE LET stripped == [i \in 1..Len(split(description)) |-> strip(split(description)[i])]
             key_lines == SelectSeq(stripped, IsKeyLine)
         IN  IF Len(key_lines) > 0
             THEN join(SubSeq(key_lines, 1, Min(5, Len(key_lines))))
             ELSE SubSeq(description, 1, Min(200, Len(description))) \o <<".", ".", ".">>

analyze_content(item) ==
    [summary |-> item.type \o <<":", " ">> \o item.title,
     key_points |-> _extract_key_points(item.description),
     action_items |-> _get_action_recommendation(item.type, item.state),
     impact_assessment |-> _assess_impact(item.type, item.title, item.description)]

---------------------------------------------------------------------------
(* AIAssessmentReconciler: the loop the three enhanced renderers share. *)

HIGH == <<"H","I","G","H">>
MEDIUM == <<"M","E","D","I","U","M">>
LOW == <<"L","O","W">>

\* LineMatches with every line taken for a match
LineMatchesAny(line, id) == TRUE

\* `work_item_id in line or f"#{work_item_id}" in line or f"ID: {work_item_id}" in line`
LineMatches(line, id) ==
    \/ Contains(line, IdStr(id))
    \/ Contains(line, <<"#">> \o IdStr(id))
    \/ Contains(line, <<"I","D",":"," ">> \o IdStr(id))

\* lines[max(0, i - 5) : min(len(lines), i + 10)] for the 0-based i = n - 1
ContextSection(lines, n) ==
    SubSeq(lines, Max(0, (n - 1) - 5) + 1, Min(Len(lines), (n - 1) + 10))

InSection(section, kw) ==
    \E j \in 1..Len(section) : Contains(section[j], kw)

\* SectionLevel with the chain in the order LOW, MEDIUM, HIGH
SectionLevelLowFirst(lines, n) ==
    LET section == ContextSection(lines, n)
        context_section_upper == [j \in 1..Len(section) |-> upper(section[j])]
    IN  IF InSection(context_section_upper, LOW) THEN "LOW"
        ELSE IF InSection(context_section_upper, MEDIUM) THEN "MEDIUM"
        ELSE IF InSection(context_section_upper, HIGH) THEN "HIGH"
        ELSE "None"

\* the level the if/elif chain finds in the context of line n, "None" if none
SectionLevel(lines, n) ==
    LET section == ContextSection(lines, n)
        context_section_upper == [j \in 1..Len(section) |-> upper(section[j])]
    IN  IF InSection(context_section_upper, HIGH) THEN "HIGH"
        ELSE IF InSection(context_section_upper, MEDIUM) THEN "MEDIUM"
        ELSE IF InSection(context_section_upper, LOW) THEN "LOW"
        ELSE "None"

\* the lines at which the loop breaks: a matching line whose context has a level
BreakLines(lines, id) ==
    { n \in 1..Len(lines) : LineMatches(lines[n], id) /\ SectionLevel(lines, n) # "None" }

\* claude_priority with the search ended at the first matching line
claude_priorityFirstMatch(lines, id) ==
    LET matches == {n \in 1..Len(lines) : LineMatches(lines[n], id)}
    IN  IF matches = {} THEN "None"
        ELSE SectionLevel(lines, CHOOSE n \in matches : \A m \in matches : n <= m)

claude_priority(lines, id) ==
    LET breaks == BreakLines(lines, id)
    IN  IF breaks = {} THEN "None"
        ELSE SectionLevel(lines, CHOOSE n \in breaks : \A m \in breaks : n <= m)

final_priority(lines, item) ==
    LET claude == claude_priority(lines, item.id)
    IN  IF claude # "None" THEN claude ELSE calculate_priority_score(item).level

priority_source(lines, item) ==
    IF claude_priority(lines, item.id) # "None" THEN "Claude AI Assessment"
    ELSE "Traditional Analysis"

---------------------------------------------------------------------------
(* The inputs of the model: work items the backend can return, AI reports,  *)
(* configurations.                                                          *)

NoPriority == [k |-> "none", v |-> 0]

ItemDocs ==
    [id |-> 7, type |-> <<"E","p","i","c">>, state |-> <<"C","l","o","s","e","d">>,
     title |-> <<"D","o","c","s"," ","<","v","2",">">>, description |-> <<>>,
     priority |-> NoPriority, severity |-> <<"4"," ","-"," ","L","o","w">>]

ItemCrash ==
    [id |-> 12, type |-> <<"B","u","g">>, state |-> <<"N","e","w">>,
     title |-> <<"A","p","p"," ","c","r","a","s","h"," ","o","n"," ","l","o","g","i","n">>,
     description |-> <<>>,
     priority |-> NoPriority, severity |-> <<>>]

ItemError ==
    [id |-> 3, type |-> <<"T","a","s","k">>, state |-> <<"T","o"," ","D","o">>,
     title |-> <<"F","i","x"," ","E","r","r","o","r">>, description |-> <<>>,
     priority |-> [k |-> "int", v |-> 4], severity |-> <<>>]

ItemBadPriority ==
    [id |-> 45, type |-> <<"B","u","g">>, state |-> <<"A","c","t","i","v","e">>,
     title |-> <<"S","l","o","w">>, description |-> <<>>,
     priority |-> [k |-> "str", v |-> 0], severity |-> <<>>]

ItemUniverse == {ItemDocs, ItemCrash, ItemError, ItemBadPriority}

\* the lists the details request can return: distinct work items, in any order
FetchResults ==
    { s \in UNION { [1..n -> ItemUniverse] : n \in 0..MaxItems } :
        \A i, j \in 1..Len(s) : i # j => s[i].id # s[j].id }

\* stdout of the assessment call, split at '\n'
ResponseNoIds == << <<"A","l","l"," ","f","i","n","e">> >>
ResponseLevels ==
    << <<"#","1","2"," ","l","o","w">>,
       <<"I","D",":"," ","7"," ","H","i","g","h">> >>
Responses == {ResponseNoIds, ResponseLevels}

Configs ==
    { [present |-> FALSE, pat |-> FALSE, email |-> FALSE,
       default_output |-> "console", use_claude_ai |-> FALSE] }
    \cup
    [present : {TRUE}, pat : BOOLEAN, email : BOOLEAN,
     default_output : {"console", "weekly"}, use_claude_ai : BOOLEAN]

---------------------------------------------------------------------------
(* What the run emits. Every print, file write and mail is an entry of      *)
(* `output`; an item entry is one rendered work item.                       *)

\* the fields each renderer writes for an item: lines 874-884 and 1089-1100
\* (enhanced console and text), 992-1004 (enhanced HTML), 1199-1204 and
\* 1248-1253 (traditional text and console), 1311-1324 (_build_html_report,
\* which the HTML file and the mail share)
RenderedFields(path, sink) ==
    CASE path = "enhanced" /\ sink = "console" ->
            {"level", "title", "type", "state", "id", "priority_source", "score", "action"}
      [] path = "enhanced" /\ sink = "file_text" ->
            {"level", "title", "type", "state", "id", "priority_source", "score", "action", "url"}
      [] path = "enhanced" /\ sink = "file_html" ->
            {"level", "title", "type", "state", "id", "score", "priority_source",
             "assigned_to", "url"}
      [] path = "traditional" /\ sink \in {"console", "file_text"} ->
            {"level", "title", "type", "state", "id", "score", "action"}
      [] OTHER ->
            {"level", "title", "type", "state", "id", "score", "action", "impact"}

\* the title goes into every report as it is: {fields.get('System.Title', ...)}
\* inside an f-string, in the HTML documents too
ItemEntry(item, level, score, path, sink) ==
    [kind |-> "item", id |-> item.id, level |-> level, score |-> score,
     path |-> path, sink |-> sink, text |-> "",
     title |-> item.title, fields |-> RenderedFields(path, sink)]

\* how many of the levels are the given one
LevelCount(levels, level) ==
    Cardinality({i \in 1..Len(levels) : levels[i] = level})

\* the priority summary of a traditional HTML report, lines 1295-1298
TraditionalSummary(levels, sink) ==
    [kind |-> "summary", path |-> "traditional", sink |-> sink,
     total |-> Len(levels),
     high |-> LevelCount(levels, "HIGH"),
     medium |-> LevelCount(levels, "MEDIUM"),
     low |-> LevelCount(levels, "LOW")]

\* the priority summary of an enhanced report: the if/elif/else counters of
\* lines 926-932 and 1081-1087; only the text report prints the total
EnhancedSummary(levels, sink) ==
    [kind |-> "summary", path |-> "enhanced", sink |-> sink,
     total |-> Len(levels),
     high |-> LevelCount(levels, "HIGH"),
     medium |-> LevelCount(levels, "MEDIUM"),
     low |-> Len(levels) - LevelCount(levels, "HIGH") - LevelCount(levels, "MEDIUM")]

\* the "Claude Analysis Failure Reason" annotation of a traditional report
ReasonEntry(text, sink) ==
    [kind |-> "reason", id |-> 0, level |-> "", score |-> 0,
     path |-> "traditional", sink |-> sink, text |-> text,
     title |-> <<>>, fields |-> {}]

\* a console message that is no part of a report
Message(kind, text) ==
    [kind |-> kind, id |-> 0, level |-> "", score |-> 0,
     path |-> "", sink |-> "console", text |-> text,
     title |-> <<>>, fields |-> {}]

Prefix(s, k) == SubSeq(s, 1, k)

---------------------------------------------------------------------------
(* State after construction: TFSAnalyzer() has loaded the configuration. *)

Init ==
    /\ pc = "main"
    /\ config \in Configs
    /\ output_type = "None"
    /\ use_claude = FALSE
    /\ work_items = <<>>
    /\ fetch_status = "none"
    /\ claude_response = <<>>
    /\ claude_error_reason = "None"
    /\ ai_status = "none"
    /\ analyzed_items = <<>>
    /\ phases = <<>>
    /\ output = <<>>
    /\ exit_status = "running"
    /\ engine_calls = <<>>

\* main returns after generate_output returned: exit status 0
Return ==
    /\ pc' = "done"
    /\ exit_status' = "zero"

\* an exception no handler catches leaves main: traceback, exit status 1
Uncaught ==
    /\ pc' = "failed"
    /\ exit_status' = "nonzero"

---------------------------------------------------------------------------
(* main: the output method and the Claude AI usage. *)

\* test_claude_configuration with a return value of True
test_claude_configurationTrue == TRUE

\* every path of test_claude_configuration ends in a bare return: None
test_claude_configuration == FALSE

\* the quick verification of a use_claude_ai default
DefaultClaudeVerification(version_ok, az_ok) ==
    version_ok /\ (az_ok \/ config.pat)

\* lines 1438-1454 and 1470-1499; with --claude, `use_claude = args.claude`
\* and the verification of line 1458 is the next step
Main ==
    /\ pc = "main"
    /\ \E flag \in {"browser", "html", "text", "email", "console", "none"},
          args_claude \in BOOLEAN, args_no_ai \in BOOLEAN,
          version_ok \in BOOLEAN, az_ok \in BOOLEAN :
         /\ output_type' = IF flag # "none" THEN flag ELSE config.default_output
         /\ use_claude' =
               IF args_claude THEN TRUE
               ELSE IF args_no_ai THEN FALSE
               ELSE IF config.use_claude_ai
                    THEN DefaultClaudeVerification(version_ok, az_ok)
               ELSE FALSE
         /\ pc' = IF args_claude THEN "verify_claude" ELSE "fetch"
    /\ UNCHANGED engine_calls
    /\ UNCHANGED <<config, work_items, fetch_status, claude_response,
                   claude_error_reason, ai_status, analyzed_items, phases,
                   output, exit_status>>

\* how far test_claude_configuration gets: it returns in steps 1 to 3, or its
\* step 4 calls invoke_claude_analysis([], 1, "console"), which returns before
\* the assessment call, raises, or makes the call
TestOutcomes == {"early_return", "not_called", "raised", "call_failed", "call_ok"}

\* `if analyzer.test_claude_configuration():` of main, lines 1455-1469
MainVerifyClaude ==
    /\ pc = "verify_claude"
    /\ \E r \in TestOutcomes :
         /\ phases' = IF r \in {"call_failed", "call_ok"}
                      THEN Append(phases, "test_assess_call") ELSE phases
         /\ output' = Append(output, Message("test", r))
    /\ use_claude' = test_claude_configuration
    /\ pc' = "fetch"
    /\ UNCHANGED engine_calls
    /\ UNCHANGED <<config, output_type, work_items, fetch_status, claude_response,
                   claude_error_reason, ai_status, analyzed_items, exit_status>>

---------------------------------------------------------------------------
(* get_work_items, called once by main. *)

\* `if not self.config: raise Exception(...)`: nothing in main catches it
FetchNoConfig ==
    /\ pc = "fetch"
    /\ ~config.present
    /\ fetch_status' = "raised"
    /\ phases' = Append(phases, "fetch")
    /\ Uncaught
    /\ UNCHANGED engine_calls
    /\ UNCHANGED <<config, output_type, use_claude, work_items, claude_response,
                   claude_error_reason, ai_status, analyzed_items, output>>

\* `except requests.RequestException`: print the error, return []
FetchRequestError ==
    /\ pc = "fetch"
    /\ config.present
    /\ fetch_status' = "request_error"
    /\ phases' = Append(phases, "fetch")
    /\ output' = Append(output, Message("error", "[ERROR] Error retrieving work items"))
    /\ work_items' = <<>>
    /\ pc' = "generate_output"
    /\ UNCHANGED engine_calls
    /\ UNCHANGED <<config, output_type, use_claude, claude_response,
                   claude_error_reason, ai_status, analyzed_items, exit_status>>

FetchOk ==
    /\ pc = "fetch"
    /\ config.present
    /\ \E items \in FetchResults : work_items' = items
    /\ fetch_status' = "ok"
    /\ phases' = Append(phases, "fetch")
    /\ pc' = "generate_output"
    /\ UNCHANGED engine_calls
    /\ UNCHANGED <<config, output_type, use_claude, claude_response,
                   claude_error_reason, ai_status, analyzed_items, output, exit_status>>

---------------------------------------------------------------------------
(* generate_output, lines 1114-1127: the empty check and the AI attempt. *)

\* NothingToReport with the empty check left out
NothingToReportNever(items) == FALSE

\* `if not work_items:`
NothingToReport(items) == Len(items) = 0

GenerateOutputEmpty ==
    /\ pc = "generate_output"
    /\ NothingToReport(work_items)
    /\ output' = Append(output, Message("empty", "No work items found for the specified criteria."))
    /\ Return
    /\ UNCHANGED engine_calls
    /\ UNCHANGED <<config, output_type, use_claude, work_items, fetch_status,
                   claude_response, claude_error_reason, ai_status,
                   analyzed_items, phases>>

\* `if use_claude:` calls invoke_claude_analysis
GenerateOutputTryClaude ==
    /\ pc = "generate_output"
    /\ ~NothingToReport(work_items)
    /\ use_claude
    /\ ai_status' = "running"
    /\ phases' = Append(phases, "ai_attempt")
    /\ pc' = "ai_version"
    /\ UNCHANGED engine_calls
    /\ UNCHANGED <<config, output_type, use_claude, work_items, fetch_status,
                   claude_response, claude_error_reason, analyzed_items,
                   output, exit_status>>

GenerateOutputTraditional ==
    /\ pc = "generate_output"
    /\ ~NothingToReport(work_items)
    /\ ~use_claude
    /\ pc' = "scoring"
    /\ UNCHANGED engine_calls
    /\ UNCHANGED <<config, output_type, use_claude, work_items, fetch_status,
                   claude_response, claude_error_reason, ai_status,
                   analyzed_items, phases, output, exit_status>>

---------------------------------------------------------------------------
(* invoke_claude_analysis. Each external call is a step; an external        *)
(* process that never answers leaves the run in a "blocked_..." position    *)
(* unless the call carries a timeout.                                       *)

ToolMissingReason == "Claude Code CLI not found. Run setup-claude first."
NoAuthReason == "No valid authentication method available. Configure Azure CLI or PAT."
EmptyResponseReason == "Claude returned empty response"
EmptyResponseDetailReason == "Claude returned empty response: <stderr>"
TimeoutReason == "Command timed out after 120 seconds"
ExecutionFailedReason == "Claude Code execution failed: <exception>"

\* FallBack with the AI failure ending the run instead of falling back
FallBackFatal(reason) ==
    /\ claude_error_reason' = reason
    /\ ai_status' = "failed"
    /\ output' = Append(output, Message("error", reason))
    /\ pc' = "failed"

\* invoke_claude_analysis returns (False, reason); generate_output keeps the
\* reason and goes on to the traditional method
FallBack(reason) ==
    /\ claude_error_reason' = reason
    /\ ai_status' = "failed"
    /\ output' = Append(output, Message("info", "[INFO]  Falling back to traditional analysis"))
    /\ pc' = "scoring"

\* subprocess.run(['claude-code', '--version'], capture_output=True, check=True): no timeout
VersionCheckOutcomes == {"ok", "missing", "hang"}

AiVersionCheck ==
    /\ pc = "ai_version"
    /\ \E r \in VersionCheckOutcomes :
         \/ /\ r = "ok"
            /\ pc' = "ai_auth"
            /\ UNCHANGED <<claude_error_reason, ai_status, output>>
         \/ /\ r = "missing"
            /\ FallBack(ToolMissingReason)
         \/ /\ r = "hang"
            /\ pc' = "blocked_ai_version"
            /\ UNCHANGED <<claude_error_reason, ai_status, output>>
    /\ UNCHANGED engine_calls
    /\ UNCHANGED <<config, output_type, use_claude, work_items, fetch_status,
                   claude_response, analyzed_items, phases, exit_status>>

\* subprocess.run(['az', 'account', 'show'], ...): no timeout; PAT as the fallback
AuthCheckOutcomes == {"ok", "fail", "hang"}

AiAuthCheck ==
    /\ pc = "ai_auth"
    /\ \E r \in AuthCheckOutcomes :
         \/ /\ r = "ok" \/ (r = "fail" /\ config.pat)
            /\ pc' = "ai_tempfile"
            /\ UNCHANGED <<claude_error_reason, ai_status, output>>
         \/ /\ r = "fail" /\ ~config.pat
            /\ FallBack(NoAuthReason)
         \/ /\ r = "hang"
            /\ pc' = "blocked_ai_auth"
            /\ UNCHANGED <<claude_error_reason, ai_status, output>>
    /\ UNCHANGED engine_calls
    /\ UNCHANGED <<config, output_type, use_claude, work_items, fetch_status,
                   claude_response, analyzed_items, phases, exit_status>>

\* tempfile.NamedTemporaryFile(...) and the write, outside every try block
AiTempFile ==
    /\ pc = "ai_tempfile"
    /\ \E ok \in BOOLEAN :
         IF ok THEN /\ pc' = "ai_assess"
                    /\ UNCHANGED exit_status
         ELSE Uncaught
    /\ UNCHANGED engine_calls
    /\ UNCHANGED <<config, output_type, use_claude, work_items, fetch_status,
                   claude_response, claude_error_reason, ai_status,
                   analyzed_items, phases, output>>

\* subprocess.run(['claude-code', '--print', ...], timeout=120)
AssessOutcomes == {"ok", "empty", "empty_stderr", "timeout", "exception"}

AssessFailureReason(r) ==
    CASE r = "empty" -> EmptyResponseReason
      [] r = "empty_stderr" -> EmptyResponseDetailReason
      [] r = "timeout" -> TimeoutReason
      [] OTHER -> ExecutionFailedReason

AiAssess ==
    /\ pc = "ai_assess"
    /\ \E r \in AssessOutcomes :
         \/ /\ r = "ok"
            /\ \E resp \in Responses : claude_response' = resp
            /\ phases' = phases \o <<"assess_call", "assess_ok">>
            /\ pc' = "ai_render"
            /\ UNCHANGED <<claude_error_reason, ai_status, output>>
         \/ /\ r # "ok"
            /\ phases' = phases \o <<"assess_call", r>>
            /\ FallBack(AssessFailureReason(r))
            /\ UNCHANGED claude_response
    /\ UNCHANGED engine_calls
    /\ UNCHANGED <<config, output_type, use_claude, work_items, fetch_status,
                   analyzed_items, exit_status>>

---------------------------------------------------------------------------
(* _generate_enhanced_output and the enhanced renderers. They run inside    *)
(* invoke_claude_analysis's try block: whatever they raise is caught by     *)
(* `except Exception` and becomes a failure reason.                         *)

\* index of the first item whose calculate_priority_score raises, Len + 1 if none
FirstRaise(items) ==
    IF \E i \in 1..Len(items) : calculate_priority_score(items[i]).raised
    THEN CHOOSE i \in 1..Len(items) :
            /\ calculate_priority_score(items[i]).raised
            /\ \A j \in 1..(i - 1) : ~calculate_priority_score(items[j]).raised
    ELSE Len(items) + 1

\* `for item in work_items:` the enhanced renderers loop over the list as fetched
EnhancedEntries(items, lines, sink) ==
    [i \in 1..Len(items) |->
        ItemEntry(items[i], final_priority(lines, items[i]),
                  calculate_priority_score(items[i]).score, "enhanced", sink)]

\* EnhancedSummaryLevels with the traditional levels counted
EnhancedSummaryLevelsTraditional(items, lines) ==
    [i \in 1..Len(items) |-> calculate_priority_score(items[i]).level]

\* the levels the enhanced renderers count: final_priority of every item
EnhancedSummaryLevels(items, lines) ==
    [i \in 1..Len(items) |-> final_priority(lines, items[i])]

\* EnhancedDone with the `return` after a successful AI analysis left out
EnhancedDoneFallsThrough ==
    /\ ai_status' = "success"
    /\ pc' = "scoring"
    /\ UNCHANGED <<claude_error_reason, exit_status>>

\* invoke_claude_analysis returns (True, ""); generate_output returns
EnhancedDone ==
    /\ ai_status' = "success"
    /\ Return
    /\ UNCHANGED claude_error_reason

\* _generate_enhanced_html_output: the report is built in memory and written
\* to the file in one piece
EnhancedHtml ==
    /\ pc = "ai_render"
    /\ output_type \in {"browser", "html"}
    /\ \/ /\ FirstRaise(work_items) > Len(work_items)
          /\ output' = (output \o << EnhancedSummary(
                                         EnhancedSummaryLevels(work_items, claude_response),
                                         "file_html") >>)
                       \o EnhancedEntries(work_items, claude_response, "file_html")
          /\ phases' = Append(phases, "enhanced_render")
          /\ EnhancedDone
       \/ /\ phases' = phases \o <<"enhanced_render",
                                    IF FirstRaise(work_items) <= Len(work_items)
                                    THEN "enhanced_raise" ELSE "enhanced_sink_failed">>
          /\ FallBack(ExecutionFailedReason)
          /\ UNCHANGED exit_status
    /\ UNCHANGED engine_calls
    /\ UNCHANGED <<config, output_type, use_claude, work_items, fetch_status,
                   claude_response, analyzed_items>>

\* the channels whose enhanced renderer emits item by item
EnhancedStreamSink(type) == IF type = "text" THEN "file_text" ELSE "console"

\* _generate_enhanced_text_output, _generate_enhanced_console_output (also the
\* `else` branch of _generate_enhanced_output): every item emitted
EnhancedStreamOk ==
    /\ pc = "ai_render"
    /\ output_type \notin {"browser", "html", "email"}
    /\ FirstRaise(work_items) > Len(work_items)
    /\ phases' = Append(phases, "enhanced_render")
    /\ output' = (output \o EnhancedEntries(work_items, claude_response,
                                             EnhancedStreamSink(output_type)))
                 \o (IF output_type = "text"
                     THEN << EnhancedSummary(
                                EnhancedSummaryLevels(work_items, claude_response),
                                "file_text") >>
                     ELSE <<>>)
    /\ EnhancedDone
    /\ UNCHANGED engine_calls
    /\ UNCHANGED <<config, output_type, use_claude, work_items, fetch_status,
                   claude_response, analyzed_items>>

\* the same renderers stopped by an exception after k items: the scoring of
\* item k + 1 raised, or the sink did (open, write, print)
EnhancedStreamFails ==
    /\ pc = "ai_render"
    /\ output_type \notin {"browser", "html", "email"}
    /\ \E k \in 0..Min(FirstRaise(work_items) - 1, Len(work_items)) :
         /\ phases' = phases \o <<"enhanced_render",
                                   IF k = FirstRaise(work_items) - 1 /\ k < Len(work_items)
                                   THEN "enhanced_raise" ELSE "enhanced_sink_failed">>
         /\ claude_error_reason' = ExecutionFailedReason
         /\ ai_status' = "failed"
         /\ output' = (output \o EnhancedEntries(Prefix(work_items, k), claude_response,
                                                 EnhancedStreamSink(output_type)))
                      \o << Message("info", "[INFO]  Falling back to traditional analysis") >>
         /\ pc' = "scoring"
    /\ UNCHANGED engine_calls
    /\ UNCHANGED <<config, output_type, use_claude, work_items, fetch_status,
                   claude_response, analyzed_items, exit_status>>

\* self._send_enhanced_email_output is not defined anywhere: AttributeError
EnhancedEmail ==
    /\ pc = "ai_render"
    /\ output_type = "email"
    /\ phases' = phases \o <<"enhanced_render", "enhanced_no_method">>
    /\ FallBack(ExecutionFailedReason)
    /\ UNCHANGED engine_calls
    /\ UNCHANGED <<config, output_type, use_claude, work_items, fetch_status,
                   claude_response, analyzed_items, exit_status>>

---------------------------------------------------------------------------
(* generate_output, lines 1129-1143: the traditional scoring pass and sort. *)

AnalyzedItem(item) ==
    LET scored == calculate_priority_score(item)
    IN  [work_item |-> item,
         priority_score |-> scored.score,
         priority_level |-> scored.level]

\* where list.sort(key=priority_score, reverse=True) puts x in a sorted list:
\* after every element whose score is not lower (the sort is stable)
InsertDesc(sorted, x) ==
    LET k == Cardinality({i \in 1..Len(sorted) : sorted[i].priority_score >= x.priority_score})
    IN  SubSeq(sorted, 1, k) \o <<x>> \o SubSeq(sorted, k + 1, Len(sorted))

RECURSIVE SortByScoreDesc(_)
SortByScoreDesc(s) ==
    IF Len(s) = 0 THEN <<>>
    ELSE InsertDesc(SortByScoreDesc(SubSeq(s, 1, Len(s) - 1)), s[Len(s)])

Scoring ==
    /\ pc = "scoring"
    /\ phases' = Append(phases, "scoring")
    /\ IF FirstRaise(work_items) <= Len(work_items)
       THEN /\ Uncaught
            /\ UNCHANGED analyzed_items
       ELSE /\ analyzed_items' =
                  SortByScoreDesc([i \in 1..Len(work_items) |-> AnalyzedItem(work_items[i])])
            /\ pc' = "render"
            /\ UNCHANGED exit_status
    /\ UNCHANGED engine_calls
    /\ UNCHANGED <<config, output_type, use_claude, work_items, fetch_status,
                   claude_response, claude_error_reason, ai_status, output>>

---------------------------------------------------------------------------
(* generate_output, lines 1145-1152, and the traditional renderers. *)

\* the summary at the head of _build_html_report; the text and console
\* reports have none
TraditionalSummaries(items, sink) ==
    IF sink \in {"file_html", "email"}
    THEN << TraditionalSummary([i \in 1..Len(items) |-> items[i].priority_level], sink) >>
    ELSE <<>>

TraditionalEntries(items, sink) ==
    [i \in 1..Len(items) |->
        ItemEntry(items[i].work_item, items[i].priority_level,
                  items[i].priority_score, "traditional", sink)]

\* `if claude_error_reason:` the annotation, when there is a reason
ReasonEntries(reason, sink) ==
    IF reason # "None" /\ reason # "" THEN << ReasonEntry(reason, sink) >> ELSE <<>>

\* the channels generate_output's if/elif chain knows
Channels == {"browser", "html", "text", "console", "email"}

\* _generate_html_output, _generate_text_output: the report is built in
\* memory, then open() and write(); an OSError is caught nowhere
FileSink(type) == IF type = "text" THEN "file_text" ELSE "file_html"

TraditionalFile ==
    /\ pc = "render"
    /\ output_type \in {"browser", "html", "text"}
    /\ \E ok \in BOOLEAN :
         IF ok
         THEN /\ output' = ((output \o TraditionalSummaries(analyzed_items, FileSink(output_type)))
                            \o ReasonEntries(claude_error_reason, FileSink(output_type)))
                           \o TraditionalEntries(analyzed_items, FileSink(output_type))
              /\ phases' = Append(phases, "render")
              /\ Return
         ELSE /\ phases' = phases \o <<"render", "sink_failed">>
              /\ Uncaught
              /\ UNCHANGED output
    /\ UNCHANGED engine_calls
    /\ UNCHANGED <<config, output_type, use_claude, work_items, fetch_status,
                   claude_response, claude_error_reason, ai_status, analyzed_items>>

\* _generate_console_output: the items are printed one by one and the reason
\* after them; a print that raises ends the run with what was printed so far
TraditionalConsole ==
    /\ pc = "render"
    /\ output_type = "console"
    /\ \/ /\ output' = (output \o TraditionalEntries(analyzed_items, "console"))
                       \o ReasonEntries(claude_error_reason, "console")
          /\ phases' = Append(phases, "render")
          /\ Return
       \/ /\ \E k \in 0..Len(analyzed_items) :
               output' = output \o TraditionalEntries(Prefix(analyzed_items, k), "console")
          /\ phases' = phases \o <<"render", "sink_failed">>
          /\ Uncaught
    /\ UNCHANGED engine_calls
    /\ UNCHANGED <<config, output_type, use_claude, work_items, fetch_status,
                   claude_response, claude_error_reason, ai_status, analyzed_items>>

\* _send_email_output: returns after an error message when the configuration
\* lacks a key; `except Exception` around the SMTP session prints and returns
EmailConfigured == config.email

TraditionalEmail ==
    /\ pc = "render"
    /\ output_type = "email"
    /\ IF ~EmailConfigured
       THEN /\ output' = Append(output, Message("error", "[ERROR] Email configuration missing. Run setup first."))
            /\ phases' = Append(phases, "render")
       ELSE \E sent \in BOOLEAN :
              IF sent
              THEN /\ output' = ((output \o TraditionalSummaries(analyzed_items, "email"))
                                 \o ReasonEntries(claude_error_reason, "email"))
                                \o TraditionalEntries(analyzed_items, "email")
                   /\ phases' = Append(phases, "render")
              ELSE /\ output' = Append(output, Message("error", "[ERROR] Failed to send email"))
                   /\ phases' = phases \o <<"render", "sink_failed">>
    /\ Return
    /\ UNCHANGED engine_calls
    /\ UNCHANGED <<config, output_type, use_claude, work_items, fetch_status,
                   claude_response, claude_error_reason, ai_status, analyzed_items>>

\* no branch of the if/elif chain matches and there is no else: nothing is rendered
TraditionalNoBranch ==
    /\ pc = "render"
    /\ output_type \notin Channels
    /\ phases' = Append(phases, "render")
    /\ Return
    /\ UNCHANGED engine_calls
    /\ UNCHANGED <<config, output_type, use_claude, work_items, fetch_status,
                   claude_response, claude_error_reason, ai_status, analyzed_items, output>>

---------------------------------------------------------------------------

Next ==
    \/ Main
    \/ MainVerifyClaude
    \/ FetchNoConfig
    \/ FetchRequestError
    \/ FetchOk
    \/ GenerateOutputEmpty
    \/ GenerateOutputTryClaude
    \/ GenerateOutputTraditional
    \/ AiVersionCheck
    \/ AiAuthCheck
    \/ AiTempFile
    \/ AiAssess
    \/ EnhancedHtml
    \/ EnhancedStreamOk
    \/ EnhancedStreamFails
    \/ EnhancedEmail
    \/ Scoring
    \/ TraditionalFile
    \/ TraditionalConsole
    \/ TraditionalEmail
    \/ TraditionalNoBranch

Spec == Init /\ [][Next]_vars

TypeOK ==
    /\ pc \in {"engine", "main", "verify_claude", "fetch", "generate_output", "ai_version", "ai_auth",
               "ai_tempfile", "ai_assess", "ai_render", "scoring", "render",
               "done", "failed", "blocked_ai_version", "blocked_ai_auth"}
    /\ config \in Configs
    /\ use_claude \in BOOLEAN
    /\ fetch_status \in {"none", "ok", "request_error", "raised"}
    /\ ai_status \in {"none", "running", "success", "failed"}
    /\ exit_status \in {"running", "zero", "nonzero"}
    /\ Len(work_items) <= MaxItems

---------------------------------------------------------------------------
(* The engine's functions on their own: calculate_priority_score and        *)
(* analyze_content are called on one work item, which is drawn from the     *)
(* products of the field values below. An absent field is the empty text    *)
(* its fields.get default gives.                                            *)

\* how many calls of the engine's functions a run of these specifications makes
MaxCalls == 2

\* largest System.Priority of the items
MaxPriority == 6

\* System.WorkItemType
ScoreTypes ==
    {
      <<>>,
      <<"B","u","g">>,
      <<"T","a","s","k">>,
      <<"F","e","a","t","u","r","e">> }

\* System.State
ScoreStates ==
    {
      <<>>,
      <<"N","e","w">>,
      <<"I","n"," ","P","r","o","g","r","e","s","s">> }

\* System.Title
ScoreTitles ==
    {
      <<"D","o","c","s">>,
      <<"A","p","p"," ","c","r","a","s","h"," ","o","n"," ","l","o","g","i",
        "n">>,
      <<"F","i","x"," ","E","r","r","o","r">>,
      <<"P","r","o","d","u","c","t","i","o","n"," ","d","o","w","n">>,
      <<"C","r","i","t","i","c","a","l"," ","e","r","r","o","r">> }

\* System.Description
ScoreDescriptions ==
    {
      <<>>,
      <<"K","n","o","w","n"," ","i","s","s","u","e">> }

\* Microsoft.VSTS.Common.Severity
ScoreSeverities ==
    {
      <<>>,
      <<"1"," ","-"," ","C","r","i","t","i","c","a","l">>,
      <<"2"," ","-"," ","H","i","g","h">>,
      <<"3"," ","-"," ","M","e","d","i","u","m">>,
      <<"4"," ","-"," ","L","o","w">>,
      <<"C","r","i","t","i","c","a","l">>,
      <<"h","i","g","h">>,
      <<"M","E","D","I","U","M">>,
      <<"L","o","w">>,
      <<"U","n","k","n","o","w","n">> }

\* System.Priority: absent, an integer, or a text that is no integer literal
ScorePriorities ==
    {NoPriority, [k |-> "str", v |-> 0]} \cup [k : {"int"}, v : 0..MaxPriority]

ScoreItems ==
    [id : {12}, type : ScoreTypes, state : ScoreStates, title : ScoreTitles,
     description : ScoreDescriptions, priority : ScorePriorities,
     severity : ScoreSeverities]

NoAnalysis ==
    [summary |-> <<>>, key_points |-> <<>>, action_items |-> <<>>,
     impact_assessment |-> <<>>]

\* the state of Init except for the position, the item and the AI report
EngineInit(items, reports) ==
    /\ pc = "engine"
    /\ config = [present |-> FALSE, pat |-> FALSE, email |-> FALSE,
                 default_output |-> "console", use_claude_ai |-> FALSE]
    /\ output_type = "None"
    /\ use_claude = FALSE
    /\ work_items \in {<<item>> : item \in items}
    /\ fetch_status = "none"
    /\ claude_response \in reports
    /\ claude_error_reason = "None"
    /\ ai_status = "none"
    /\ analyzed_items = <<>>
    /\ phases = <<>>
    /\ output = <<>>
    /\ exit_status = "running"
    /\ engine_calls = <<>>

EngineUnchanged ==
    UNCHANGED <<pc, config, output_type, use_claude, work_items, fetch_status,
                claude_response, claude_error_reason, ai_status, analyzed_items,
                phases, output, exit_status>>

ScoreInit == EngineInit(ScoreItems, {<<>>})

\* one call of calculate_priority_score(work_item)
ScoreCall ==
    /\ pc = "engine"
    /\ Len(engine_calls) < MaxCalls
    /\ engine_calls' = Append(engine_calls,
           [fn |-> "calculate_priority_score",
            scored |-> calculate_priority_score(work_items[1]),
            analysis |-> NoAnalysis])
    /\ EngineUnchanged

\* one call of analyze_content(work_item)
AnalyzeCall ==
    /\ pc = "engine"
    /\ Len(engine_calls) < MaxCalls
    /\ engine_calls' = Append(engine_calls,
           [fn |-> "analyze_content",
            scored |-> [raised |-> FALSE, score |-> 0, level |-> ""],
            analysis |-> analyze_content(work_items[1])])
    /\ EngineUnchanged

ScoreNext == ScoreCall \/ AnalyzeCall

ScoreSpec == ScoreInit /\ [][ScoreNext]_vars

---------------------------------------------------------------------------
(* analyze_content on items whose type, state, title and description vary   *)
(* in letter case, in the words they hold and in the layout of the          *)
(* description. "U+2022" stands for the one character of that code point,   *)
(* the bullet.                                                              *)

\* System.WorkItemType
ContentTypes ==
    {
      <<>>,
      <<"B","u","g">>,
      <<"b","u","g">>,
      <<"B","U","G">>,
      <<"T","a","s","k">>,
      <<"F","e","a","t","u","r","e">> }

\* System.State
ContentStates ==
    {
      <<>>,
      <<"N","e","w">>,
      <<"n","e","w">>,
      <<"A","c","t","i","v","e">>,
      <<"I","n"," ","P","r","o","g","r","e","s","s">>,
      <<"T","o"," ","D","o">> }

\* System.Title
ContentTitles ==
    {
      <<"D","o","c","s">>,
      <<"U","I"," ","c","r","a","s","h">>,
      <<"D","i","s","p","l","a","y"," ","g","l","i","t","c","h">>,
      <<"S","l","o","w"," ","p","e","r","f","o","r","m","a","n","c","e">>,
      <<"F","i","x"," ","E","r","r","o","r">> }

\* a description of more than 200 characters
LongDescription ==
    <<"0","1","2","3","4","5","6","7","8","9","0","1","2","3","4","5","6","7",
      "8","9","0","1","2","3","4","5","6","7","8","9","0","1","2","3","4","5",
      "6","7","8","9","0","1","2","3","4","5","6","7","8","9","0","1","2","3",
      "4","5","6","7","8","9","0","1","2","3","4","5","6","7","8","9","0","1",
      "2","3","4","5","6","7","8","9","0","1","2","3","4","5","6","7","8","9",
      "0","1","2","3","4","5","6","7","8","9","0","1","2","3","4","5","6","7",
      "8","9","0","1","2","3","4","5","6","7","8","9","0","1","2","3","4","5",
      "6","7","8","9","0","1","2","3","4","5","6","7","8","9","0","1","2","3",
      "4","5","6","7","8","9","0","1","2","3","4","5","6","7","8","9","0","1",
      "2","3","4","5","6","7","8","9","0","1","2","3","4","5","6","7","8","9",
      "0","1","2","3","4","5","6","7","8","9","0","1","2","3","4","5","6","7",
      "8","9","0","1","2","3","4","5","6","7","8","9","0","1","2","3","4","5",
      "6","7","8","9","0","1","2","3","4","5","6","7","8","9">>

SixBullets ==
    <<"-"," ","a","\n","-"," ","b","\n","-"," ","c","\n","-"," ","d","\n","-",
      " ","e","\n","-"," ","f">>

MixedList ==
    <<"S","t","e","p","s",":","\n","-"," ","o","n","e","\n"," "," ","*"," ",
      "t","w","o","\n","3","."," ","t","h","r","e","e","\n","1","0","."," ",
      "t","e","n","\n","e","n","d">>

GlyphList ==
    <<"U+2022"," ","f","i","r","s","t","\n","U+2022"," ","s","e","c","o","n","d">>

\* System.Description
ContentDescriptions ==
    { <<>>, <<"P","l","a","i","n"," ","t","e","x","t">>,
      LongDescription, SixBullets, MixedList, GlyphList }

ContentItems ==
    [id : {12}, type : ContentTypes, state : ContentStates, title : ContentTitles,
     description : ContentDescriptions, priority : {NoPriority}, severity : {<<>>}]

ContentInit == EngineInit(ContentItems, {<<>>})

ContentSpec == ContentInit /\ [][ScoreNext]_vars

---------------------------------------------------------------------------
(* The reconciliation loop of the enhanced renderers on its own: one work   *)
(* item and one AI report; the loop is written out three times in the       *)
(* source, once per renderer, with the same text.                           *)

\* number of lines of the AI reports
ReportLen == 17

\* a line of the report that says nothing
Filler == <<"-">>

\* lines that name a work item
IdLines ==
    {
      <<"1","2">>,
      <<"#","1","2">>,
      <<"I","D",":"," ","1","2">>,
      <<"T","i","c","k","e","t"," ","1","2","0">>,
      <<"I","t","e","m"," ","7">> }

\* lines with and without a level keyword
LevelLines ==
    {
      <<"H","I","G","H">>,
      <<"M","e","d","i","u","m"," ","r","i","s","k">>,
      <<"l","o","w">>,
      <<"A","l","l","o","w"," ","a","l","l">>,
      <<"N","o","t","e","s">> }

\* the lines at which the reports name the item: the first line, a line with
\* five lines before it and ten after it, the last line
IdLinePositions == {1, 7, ReportLen}

\* a report with id_line at line n and level_line at line m; at m = n the line
\* holds both
Report(n, id_line, m, level_line) ==
    [i \in 1..ReportLen |->
        IF i = n /\ i = m THEN id_line \o <<" ">> \o level_line
        ELSE IF i = n THEN id_line
        ELSE IF i = m THEN level_line
        ELSE Filler]

OneLevelReports ==
    { Report(n, id_line, m, level_line) :
        n \in IdLinePositions, id_line \in IdLines,
        m \in 1..ReportLen, level_line \in LevelLines }

RECURSIVE JoinWords(_)
JoinWords(texts) ==
    IF Len(texts) = 1 THEN texts[1]
    ELSE texts[1] \o <<" ">> \o JoinWords(Tail(texts))

\* a report from <<line number, text>> pairs: the texts placed at one line
\* follow each other on it, the lines without a text say nothing
ReportOf(placed) ==
    [i \in 1..ReportLen |->
        LET here == SelectSeq(placed, LAMBDA p : p[1] = i)
        IN  IF Len(here) = 0 THEN Filler
            ELSE JoinWords([k \in 1..Len(here) |-> here[k][2]])]

LevelWords ==
    { <<"H","I","G","H">>, <<"m","e","d","i","u","m">>, <<"L","o","w">> }

\* around an id at line 7: before the section, its first line, the line of
\* the id, the last line of the section, after the section
LevelPositions == {1, 2, 7, 16, ReportLen}

\* reports that name item 12 at line 7 and carry two level keywords
TwoLevelReports ==
    { ReportOf(<< <<7, <<"#","1","2">> >>, <<m1, l1>>, <<m2, l2>> >>) :
        m1 \in LevelPositions, l1 \in LevelWords,
        m2 \in LevelPositions, l2 \in LevelWords }

\* reports that name item 12 at the first and at the last line, with a text
\* near the first, or away from both, and a text near the last
TwoIdReports ==
    { ReportOf(<< <<1, <<"I","D",":"," ","1","2">> >>,
                  <<ReportLen, <<"I","D",":"," ","1","2">> >>,
                  <<m1, l1>>, <<ReportLen - 2, l2>> >>) :
        m1 \in {3, 11},
        l1 \in {<<"L","o","w">>, <<"N","o","t","e","s">>},
        l2 \in {<<"m","e","d","i","u","m">>, <<"N","o","t","e","s">>} }

Reports == OneLevelReports \cup TwoLevelReports \cup TwoIdReports

ReconcileItems == {ItemCrash, ItemDocs, ItemError}

Renderers == {"console", "html", "text"}

ReconcileInit == EngineInit(ReconcileItems, Reports)

\* the loop body of lines 836-870, 896-924, 1050-1079 for the item
ReconcileCall ==
    /\ pc = "engine"
    /\ \E renderer \in Renderers :
         /\ \A i \in 1..Len(engine_calls) : engine_calls[i].fn # renderer
         /\ engine_calls' = Append(engine_calls,
                [fn |-> renderer,
                 traditional_priority |-> calculate_priority_score(work_items[1]).level,
                 final_priority |-> final_priority(claude_response, work_items[1]),
                 priority_source |-> priority_source(claude_response, work_items[1])])
    /\ EngineUnchanged

ReconcileNext == ReconcileCall

ReconcileSpec == ReconcileInit /\ [][ReconcileNext]_vars

---------------------------------------------------------------------------
(* Properties. *)

InPhases(p) == \E i \in 1..Len(phases) : phases[i] = p

Before(p, q) == \E i, j \in 1..Len(phases) : i < j /\ phases[i] = p /\ phases[j] = q

Ended == pc \in {"done", "failed"}

ItemPositions == {i \in 1..Len(output) : output[i].kind = "item"}

TimesRendered(id) == Cardinality({i \in ItemPositions : output[i].id = id})

FetchedIds == {work_items[i].id : i \in 1..Len(work_items)}

HasMessage(kind) == \E i \in 1..Len(output) : output[i].kind = kind

\* C1: when the backend fetch fails with a request error, the run ends FAILED
\* with a non-zero exit status; it is not treated as an empty result set and
\* never reaches the "nothing to report" message or a renderer.
C1_FetchFailureIsFatal ==
    (fetch_status = "request_error" /\ Ended) =>
        /\ pc = "failed"
        /\ exit_status = "nonzero"
        /\ ~HasMessage("empty")

\* C2: for every channel, once the assessment call has returned successfully
\* the run renders the AI-enhanced report and returns; the traditional
\* scoring, sorting and rendering are never executed. (Stated for the runs in
\* which no work item makes the scoring raise and no sink fails.)
C2_AISuccessNeverFallsThrough ==
    (/\ InPhases("assess_ok")
     /\ output_type \in Channels
     /\ ~InPhases("enhanced_raise")
     /\ ~InPhases("enhanced_sink_failed")) =>
        /\ ~InPhases("scoring")
        /\ ~InPhases("render")
        /\ Ended => ai_status = "success"

\* C3: a failure of the AI attempt is not fatal: the step that fails it leaves a
\* non-empty reason and continues with the traditional scoring pass, every item
\* of the traditional report carries the level calculate_priority_score gives
\* it, and after a timeout the reason is "Command timed out after 120 seconds".
C3_AIFailureFallsBack ==
    /\ [][(ai_status # "failed" /\ ai_status' = "failed") =>
            /\ pc' = "scoring"
            /\ exit_status' = "running"
            /\ claude_error_reason' \notin {"None", ""}]_vars
    /\ [](ai_status = "failed" =>
            \A i \in ItemPositions : output[i].path = "traditional" =>
                \E j \in 1..Len(work_items) :
                    /\ work_items[j].id = output[i].id
                    /\ output[i].level = PriorityLevel(Score(work_items[j])))
    /\ [](InPhases("timeout") =>
            claude_error_reason = "Command timed out after 120 seconds")

\* C3 witness: the assessment call timed out and a traditional report with
\* items was delivered.
C3_Witness ==
    /\ pc = "done"
    /\ InPhases("timeout")
    /\ \E i \in ItemPositions : output[i].path = "traditional"

\* C4: whenever an AI attempt was made and failed, the output of the run on the
\* selected channel contains the failure reason, for every channel.
C4_FailureReasonSurfaced ==
    (ai_status = "failed" /\ pc = "done" /\ output_type \in Channels) =>
        \E i \in 1..Len(output) :
            output[i].kind = "reason" /\ output[i].text = claude_error_reason

\* C5: in every completed run with a non-empty fetch result, on every channel,
\* each fetched work item is rendered exactly once and nothing else is.
C5_EachItemRenderedOnce ==
    (pc = "done" /\ Len(work_items) > 0 /\ output_type \in Channels) =>
        /\ \A id \in FetchedIds : TimesRendered(id) = 1
        /\ \A i \in ItemPositions : output[i].id \in FetchedIds

\* C6: in every rendered report, traditional or AI-enhanced, the items are in
\* descending order of their traditional score.
C6_DescendingScore ==
    \A i, j \in ItemPositions :
        (j = i + 1 /\ output[i].path = output[j].path) =>
            output[i].score >= output[j].score

\* C7: once the AI attempt is entered the run cannot be left waiting for ever
\* on an external call of the attempt: while the attempt is running and the
\* run has not ended, a next step is always possible.
C7_AIAttemptNeverStuck ==
    (ai_status = "running" /\ ~Ended) => ENABLED Next

\* C8: a failure of the channel sink during rendering is fatal on every
\* channel: the run ends FAILED with a non-zero exit status.
C8_SinkFailureIsFatal ==
    InPhases("sink_failed") => (pc = "failed" /\ exit_status = "nonzero")

\* C9: when the fetch returns an empty list, generate_output reports "nothing
\* to report" and returns: no AI attempt, no scoring pass, no renderer, whatever
\* use_claude and output_type are.
C9_EmptyShortCircuits ==
    (fetch_status \in {"ok", "request_error"} /\ Len(work_items) = 0) =>
        /\ pc \in {"generate_output", "done"}
        /\ phases[Len(phases)] = "fetch"
        /\ ai_status = "none"
        /\ ItemPositions = {}
        /\ pc = "done" => (HasMessage("empty") /\ exit_status = "zero")

\* C9 witness: an empty fetch with AI analysis requested on the email channel
\* has ended.
C9_Witness ==
    /\ fetch_status = "ok"
    /\ Len(work_items) = 0
    /\ use_claude
    /\ output_type = "email"
    /\ pc = "done"

Count(p) == Cardinality({i \in 1..Len(phases) : phases[i] = p})

\* C11: within one run the AI assessment call is made at most once (by the
\* verification of --claude or by generate_output, never by both) and the
\* backend fetch is performed at most once; after a failure of either, the run
\* never makes the call again.
C11_NoRetries ==
    /\ Count("assess_call") + Count("test_assess_call") <= 1
    /\ Count("fetch") <= 1

\* C11 witness: the verification of --claude made the assessment call, the
\* fetch failed afterwards, and the run has ended.
C11_Witness ==
    /\ Ended
    /\ Count("test_assess_call") = 1
    /\ fetch_status = "request_error"

\* the work item the engine's functions are called on
TheItem == work_items[1]

\* the calls of calculate_priority_score that returned, and those of analyze_content
ScoreReturns ==
    {i \in 1..Len(engine_calls) :
        engine_calls[i].fn = "calculate_priority_score" /\ ~engine_calls[i].scored.raised}

AnalyzeReturns == {i \in 1..Len(engine_calls) : engine_calls[i].fn = "analyze_content"}

\* C12: calculate_priority_score is total: for every work item, whatever the
\* form of its fields, the call returns a (score, level) pair and never raises.
C12_ScoreIsTotal ==
    \A i \in 1..Len(engine_calls) :
        engine_calls[i].fn = "calculate_priority_score" => ~engine_calls[i].scored.raised

C15_CrashOnLoginScenario ==
    TheItem = ItemCrash =>
        /\ type_weights(lower(TheItem.type)) = 3
        /\ state_weights(lower(TheItem.state)) = 3
        /\ \A i \in ScoreReturns :
              engine_calls[i].scored = [raised |-> FALSE, score |-> 9, level |-> "HIGH"]
        /\ \A i \in 1..Len(engine_calls) :
              engine_calls[i].fn = "calculate_priority_score" => i \in ScoreReturns
        /\ \A i \in AnalyzeReturns :
              /\ engine_calls[i].analysis.action_items = InvestigateAndReproduce
              /\ engine_calls[i].analysis.action_items # ContinueWorkOn \o <<"b","u","g">>
              /\ engine_calls[i].analysis.impact_assessment = HighStabilityImpact

\* C15 witness: both functions were called on that item.
C15_Witness ==
    /\ TheItem = ItemCrash
    /\ ScoreReturns # {}
    /\ AnalyzeReturns # {}

\* what a field group adds to the score: the returned score less the score of
\* the same item with the group removed
WithoutPriority == [TheItem EXCEPT !.priority = NoPriority]
WithoutSeverity == [TheItem EXCEPT !.severity = <<>>]
WithoutText == [TheItem EXCEPT !.title = <<>>, !.description = <<>>]

\* C16: whenever the priority field is present with an integer value p, 0
\* included, it adds exactly max(0, 5 - p) to the score.
C16_PriorityContribution ==
    TheItem.priority.k = "int" =>
        \A i \in ScoreReturns :
            engine_calls[i].scored.score - Score(WithoutPriority)
                = Max(0, 5 - TheItem.priority.v)

\* what the severity field of the item added to the score returned by call i
SeverityAdded(i) == engine_calls[i].scored.score - Score(WithoutSeverity)

\* C17 as stated: a severity of critical, high, medium or low, in any letter
\* case, adds 4, 3, 2 or 1, and any other label adds 0.
C17_SeverityBareLabels ==
    \A i \in ScoreReturns :
        SeverityAdded(i) =
            CASE lower(TheItem.severity) = <<"c","r","i","t","i","c","a","l">> -> 4
              [] lower(TheItem.severity) = <<"h","i","g","h">> -> 3
              [] lower(TheItem.severity) = <<"m","e","d","i","u","m">> -> 2
              [] lower(TheItem.severity) = <<"l","o","w">> -> 1
              [] OTHER -> 0

\* C17 amended: the table is keyed by the full label: a severity of
\* '1 - Critical', '2 - High', '3 - Medium' or '4 - Low', in any letter case,
\* adds 4, 3, 2 or 1, and any other label, the bare words included, adds 0.
C17_SeverityFullLabels ==
    \A i \in ScoreReturns :
        SeverityAdded(i) =
            CASE lower(TheItem.severity) = <<"1"," ","-"," ","c","r","i","t","i","c","a","l">> -> 4
              [] lower(TheItem.severity) = <<"2"," ","-"," ","h","i","g","h">> -> 3
              [] lower(TheItem.severity) = <<"3"," ","-"," ","m","e","d","i","u","m">> -> 2
              [] lower(TheItem.severity) = <<"4"," ","-"," ","l","o","w">> -> 1
              [] OTHER -> 0

\* C17 witness: an item of severity '1 - Critical' was scored and the field
\* added 4.
C17_Witness ==
    /\ TheItem.severity = <<"1"," ","-"," ","C","r","i","t","i","c","a","l">>
    /\ \E i \in ScoreReturns : SeverityAdded(i) = 4

HasKeyword(keywords) ==
    \E kw \in keywords :
        Contains(lower(TheItem.title) \o <<" ">> \o lower(TheItem.description), kw)

\* C18: the keywords add exactly 0, 2 or 3: 3 whenever the lowercased
\* title and description contain a high-urgency keyword, also next to
\* medium-urgency ones, 2 when they contain a medium-urgency keyword and no
\* high-urgency one, and never 5.
C18_KeywordBonusExclusive ==
    ScoreReturns # {} =>
        LET high == HasKeyword(high_keywords)
            medium == HasKeyword(medium_keywords)
            base == Score(WithoutText)
        IN  \A i \in ScoreReturns :
                LET added == engine_calls[i].scored.score - base
                IN  /\ added \in {0, 2, 3}
                    /\ high <=> added = 3
                    /\ (medium /\ ~high) <=> added = 2

\* C18 witness: 'Critical error', which holds a keyword of either list, was scored.
C18_Witness ==
    /\ TheItem.title = <<"C","r","i","t","i","c","a","l"," ","e","r","r","o","r">>
    /\ HasKeyword(high_keywords) /\ HasKeyword(medium_keywords)
    /\ ScoreReturns # {}

\* C19: the returned level is a function of the returned score alone: HIGH iff
\* score >= 8, MEDIUM iff 5 <= score < 8, LOW iff score < 5; so it is one of
\* the three literals and never lower for a higher score.
C19_LevelFromScore ==
    \A i \in ScoreReturns :
        LET score == engine_calls[i].scored.score
            level == engine_calls[i].scored.level
        IN  /\ level \in {"HIGH", "MEDIUM", "LOW"}
            /\ level = "HIGH" <=> score >= 8
            /\ level = "MEDIUM" <=> (5 <= score /\ score < 8)
            /\ level = "LOW" <=> score < 5

\* C19 witness: a score of exactly 8 was returned.
C19_Witness ==
    \E i \in ScoreReturns : engine_calls[i].scored.score = 8

\* the lines of the report that contain the id of the item
IdOccursAt == {n \in 1..Len(claude_response) : Contains(claude_response[n], IdStr(TheItem.id))}

\* C13: when the id of no item occurs in any line of the AI report, every
\* renderer's reconciliation gives the item the provenance 'Traditional
\* Analysis' and the level calculate_priority_score returns.
C13_NoIdMeansTraditional ==
    IdOccursAt = {} =>
        \A i \in 1..Len(engine_calls) :
            /\ engine_calls[i].priority_source = "Traditional Analysis"
            /\ engine_calls[i].final_priority = PriorityLevel(Score(TheItem))

\* C13 witness: a report that names level HIGH next to another item's id, and a
\* MEDIUM item reconciled by all three renderers.
C13_Witness ==
    /\ IdOccursAt = {}
    /\ \E n \in 1..Len(claude_response) : Contains(claude_response[n], HIGH)
    /\ PriorityLevel(Score(TheItem)) = "MEDIUM"
    /\ {engine_calls[i].fn : i \in 1..Len(engine_calls)} = Renderers

HasLevelKeyword(line) ==
    \/ Contains(upper(line), HIGH)
    \/ Contains(upper(line), MEDIUM)
    \/ Contains(upper(line), LOW)

\* the lines from which the report can set the level of the item, for a window
\* of `before` lines before a line with the id and `after` lines after it
WindowLines(before, after) ==
    {m \in 1..Len(claude_response) :
        \E n \in IdOccursAt : n - before <= m /\ m <= n + after}

\* C20: the window scanned for a level keyword is the line that matches the id,
\* the 5 lines before it and the 10 lines after it, clipped at the ends of the
\* report: a keyword on one of those lines sets the level of the item, and a
\* keyword on no other line does.
C20_WindowFiveBeforeTenAfter ==
    \A i \in 1..Len(engine_calls) :
        engine_calls[i].priority_source = "Claude AI Assessment"
            <=> \E m \in WindowLines(5, 10) : HasLevelKeyword(claude_response[m])

\* the lines of the section around line n: n, five before it, nine after it
SectionLines(n) ==
    {m \in 1..Len(claude_response) : n - 5 <= m /\ m <= n + 9}

SectionHas(n, kw) ==
    \E m \in SectionLines(n) : Contains(upper(claude_response[m]), kw)

\* the lines with the id of the item whose section holds a level keyword
DecidingLines ==
    {n \in IdOccursAt : SectionHas(n, HIGH) \/ SectionHas(n, MEDIUM) \/ SectionHas(n, LOW)}

Earliest(ns) == CHOOSE n \in ns : \A m \in ns : n <= m

\* C21: when the section of the matching line that decides holds several
\* level keywords, the level is HIGH if HIGH occurs anywhere in it, otherwise
\* MEDIUM if MEDIUM occurs, otherwise LOW, wherever the keywords stand and in
\* whatever letter case; the provenance is 'Claude AI Assessment'.
C21_HighestKeywordWins ==
    Len(engine_calls) > 0 =>
        LET deciding == DecidingLines
            high == SectionHas(Earliest(deciding), HIGH)
            medium == SectionHas(Earliest(deciding), MEDIUM)
            low == SectionHas(Earliest(deciding), LOW)
        IN  deciding # {} =>
                \A i \in 1..Len(engine_calls) :
                    /\ engine_calls[i].priority_source = "Claude AI Assessment"
                    /\ engine_calls[i].final_priority = "HIGH" <=> high
                    /\ engine_calls[i].final_priority = "MEDIUM" <=> (~high /\ medium)
                    /\ engine_calls[i].final_priority = "LOW" <=> (~high /\ ~medium /\ low)

\* C21 witness: 'Low' stands on a line of the section before the line with
\* 'HIGH', and the reconciled level is HIGH.
C21_Witness ==
    /\ DecidingLines # {}
    /\ \E m1, m2 \in SectionLines(Earliest(DecidingLines)) :
          /\ m1 < m2
          /\ Contains(claude_response[m1], <<"L","o","w">>)
          /\ Contains(claude_response[m2], HIGH)
    /\ \E i \in 1..Len(engine_calls) : engine_calls[i].final_priority = "HIGH"

LevelKeyword(level) ==
    CASE level = "HIGH" -> HIGH [] level = "MEDIUM" -> MEDIUM [] OTHER -> LOW

\* C28: when the id occurs on several lines, the level comes from the earliest
\* of them whose section holds a level keyword; the item stays 'Traditional
\* Analysis' with its traditional level only if no line with the id has a
\* keyword in its section.
C28_EarliestDecidingLine ==
    Len(engine_calls) > 0 =>
        LET deciding == DecidingLines
            traditional == PriorityLevel(Score(TheItem))
        IN  \A i \in 1..Len(engine_calls) :
                IF deciding = {}
                THEN /\ engine_calls[i].priority_source = "Traditional Analysis"
                     /\ engine_calls[i].final_priority = traditional
                ELSE /\ engine_calls[i].priority_source = "Claude AI Assessment"
                     /\ SectionHas(Earliest(deciding),
                                   LevelKeyword(engine_calls[i].final_priority))

\* C28 witness: the section of the first line with the id has no keyword, that
\* of the second has 'medium', and the item of traditional level HIGH is
\* reconciled to MEDIUM.
C28_Witness ==
    /\ Cardinality(IdOccursAt) = 2
    /\ DecidingLines # {}
    /\ \E n \in IdOccursAt \ DecidingLines : \A m \in DecidingLines : n < m
    /\ \E i \in 1..Len(engine_calls) :
          /\ engine_calls[i].final_priority = "MEDIUM"
          /\ engine_calls[i].traditional_priority = "HIGH"
          /\ engine_calls[i].priority_source = "Claude AI Assessment"

\* the keys of the table as the statement lists them, each with its entry
RecommendationTable ==
    { << <<"B","u","g">>, <<"N","e","w">>, InvestigateAndReproduce >>,
      << <<"B","u","g">>, <<"A","c","t","i","v","e">>, ContinueDebugging >>,
      << <<"B","u","g">>, <<"I","n"," ","P","r","o","g","r","e","s","s">>, FocusOnFix >>,
      << <<"T","a","s","k">>, <<"T","o"," ","D","o">>, ScheduleWork >>,
      << <<"T","a","s","k">>, <<"A","c","t","i","v","e">>, ContinueWork >>,
      << <<"T","a","s","k">>, <<"I","n"," ","P","r","o","g","r","e","s","s">>, FocusOnTasks >> }

\* C24: the action recommendation is the table entry only when (type, state)
\* equals a key letter for letter; for every other pair, those that differ
\* from a key only in letter case included (which the score treats like the
\* key), it is 'Continue work on ' followed by the lowercased type.
C24_ExactKeyOrFallback ==
    LET hits == {e \in RecommendationTable : e[1] = TheItem.type /\ e[2] = TheItem.state}
    IN  /\ \A i \in AnalyzeReturns :
              IF hits # {}
              THEN engine_calls[i].analysis.action_items \in {e[3] : e \in hits}
              ELSE engine_calls[i].analysis.action_items
                       = ContinueWorkOn \o lower(TheItem.type)
        /\ \A i \in ScoreReturns :
              engine_calls[i].scored.score =
                  Score([TheItem EXCEPT !.type = lower(TheItem.type),
                                        !.state = lower(TheItem.state)])

\* C24 witness: ('bug', 'new') was analysed, with the fallback as the result,
\* and scored.
C24_Witness ==
    /\ TheItem.type = <<"b","u","g">>
    /\ TheItem.state = <<"n","e","w">>
    /\ \E i \in AnalyzeReturns :
          engine_calls[i].analysis.action_items = ContinueWorkOn \o <<"b","u","g">>
    /\ ScoreReturns # {}

ItemText == lower(TheItem.title) \o <<" ">> \o lower(TheItem.description)

\* C25: for a type equal to 'bug' in any letter case, a stability word in
\* title and description gives the High stability result even next to a UI
\* word, a UI word alone the Medium UX result, neither the Low-to-Medium
\* result; for every other type the result is none of these three.
C25_ImpactPrecedence ==
    AnalyzeReturns # {} =>
        LET stability == \E word \in stability_words : Contains(ItemText, word)
            experience == \E word \in experience_words : Contains(ItemText, word)
        IN  \A i \in AnalyzeReturns :
                IF lower(TheItem.type) = <<"b","u","g">>
                THEN engine_calls[i].analysis.impact_assessment =
                        IF stability THEN HighStabilityImpact
                        ELSE IF experience THEN MediumUserExperienceImpact
                        ELSE LowToMediumFunctionalImpact
                ELSE engine_calls[i].analysis.impact_assessment \notin
                        {HighStabilityImpact, MediumUserExperienceImpact,
                         LowToMediumFunctionalImpact}

\* C25 witness: 'UI crash' of type 'BUG' was assessed as High stability impact.
C25_Witness ==
    /\ TheItem.type = <<"B","U","G">>
    /\ TheItem.title = <<"U","I"," ","c","r","a","s","h">>
    /\ \E i \in AnalyzeReturns :
          engine_calls[i].analysis.impact_assessment = HighStabilityImpact

\* a line that begins with '-', '*', the bullet glyph, or '1.' to '9.'
IsMarkedLine(line) ==
    \/ Len(line) > 0 /\ line[1] \in {"-", "*", "U+2022"}
    \/ Len(line) > 1 /\ line[1] \in {"1","2","3","4","5","6","7","8","9"} /\ line[2] = "."

\* C26: an empty description gives 'No description provided'; a description
\* with at least one line that begins, after trimming, with '-', '*', a bullet
\* glyph or '1.' to '9.' gives the first min(5, n) such lines in their order,
\* joined by newlines; any other description gives its first 200 characters
\* followed by '...'.
C26_KeyPoints ==
    AnalyzeReturns # {} =>
        LET description == TheItem.description
            lines == split(description)
            marked == SelectSeq([k \in 1..Len(lines) |-> strip(lines[k])], IsMarkedLine)
            expected ==
                IF Len(description) = 0 THEN NoDescriptionProvided
                ELSE IF Len(marked) > 0 THEN join(SubSeq(marked, 1, Min(5, Len(marked))))
                ELSE SubSeq(description, 1, Min(200, Len(description))) \o <<".",".",".">>
        IN  \A i \in AnalyzeReturns : engine_calls[i].analysis.key_points = expected

\* the logical fields an item's entry has in every channel
LogicalFields ==
    {"level", "title", "type", "state", "id", "score", "action", "impact"}

\* C22: in console, text, HTML and email output alike, each item's entry
\* contains its level, title, type, state, id, score, action recommendation
\* and impact assessment.
C22_SameFieldsEveryChannel ==
    \A i \in ItemPositions : LogicalFields \subseteq output[i].fields

\* the positions at which a character occurs in a text
Occurrences(text, ch) == {k \in 1..Len(text) : text[k] = ch}

\* C23: in HTML and email-body output the text taken from a work item is
\* markup-escaped: a '<' of an item's title never appears in the rendered
\* document.
C23_TitleEscapedInHtml ==
    \A i \in ItemPositions :
        output[i].sink \in {"file_html", "email"} =>
            Occurrences(output[i].title, "<") = {}

\* the test of --claude that found everything working: its assessment call
\* succeeded
VerificationFoundWorking ==
    \E i \in 1..Len(output) : output[i].kind = "test" /\ output[i].text = "call_ok"

\* C27: when AI analysis is requested with -c/--claude and the verification of
\* the Claude configuration finds everything working, generate_output is
\* called with use_claude = True and the AI attempt is entered for the run.
C27_VerifiedClaudeIsUsed ==
    (VerificationFoundWorking /\ pc # "verify_claude") =>
        /\ use_claude
        /\ (pc = "done" /\ Len(work_items) > 0) => InPhases("ai_attempt")

\* the positions of the priority summaries in the output
SummaryPositions == {i \in 1..Len(output) : output[i].kind = "summary"}

\* the number of items the report of a summary renders with the given levels
RenderedWith(summary, levels) ==
    Cardinality({i \in ItemPositions :
                    /\ output[i].path = summary.path
                    /\ output[i].sink = summary.sink
                    /\ output[i].level \in levels})

\* C29: in every report that shows a priority summary (traditional HTML,
\* enhanced HTML, enhanced text) the High, Medium and Low counts are each the
\* number of items rendered with that final level, and their sum is the total
\* number of items of the report.
C29_SummaryCountsMatchItems ==
    \A s \in SummaryPositions :
        LET summary == output[s]
        IN  /\ summary.high = RenderedWith(summary, {"HIGH"})
            /\ summary.medium = RenderedWith(summary, {"MEDIUM"})
            /\ summary.low = RenderedWith(summary, {"LOW"})
            /\ summary.high + summary.medium + summary.low = summary.total
            /\ summary.total = RenderedWith(summary, {"HIGH", "MEDIUM", "LOW"})

\* C29 witness: an enhanced report of three items whose summary counts two
\* HIGH and one MEDIUM, one of the HIGH items having the traditional level
\* LOW: the AI report changed a level that is counted.
C29_Witness ==
    \E s \in SummaryPositions :
        /\ output[s].path = "enhanced"
        /\ output[s].total = 3
        /\ output[s].high = 2
        /\ output[s].medium = 1
        /\ \E i \in 1..Len(work_items) :
              /\ calculate_priority_score(work_items[i]).level = "LOW"
              /\ final_priority(claude_response, work_items[i]) = "HIGH"

\* C30: generate_output with a non-empty item list always produces a report
\* whatever the output_type: a run that completes with an output_type outside
\* the five channels has rendered its items on the console.
C30_UnknownChannelStillReports ==
    (pc = "done" /\ Len(work_items) > 0 /\ output_type \notin Channels) =>
        /\ ItemPositions # {}
        /\ \A i \in ItemPositions : output[i].sink = "console"

=============================================================================
